---- MODULE Spec2Model ----
(***************************************************************************)
(* Model of axuspace: validated access to user memory from kernel code.    *)
(*                                                                         *)
(* The machine is scaled down so that TLC can enumerate it: the address    *)
(* space has NUM_PAGES pages of PAGE_SIZE_4K bytes, usize arithmetic is    *)
(* arithmetic modulo ADDR_SPACE, and a pointer fits in one byte.           *)
(***************************************************************************)
EXTENDS Integers, Sequences, FiniteSets, TLC

\* memory_addr::PAGE_SIZE_4K, scaled from 4096 bytes to 2 bytes.
PAGE_SIZE_4K == 2

\* Number of pages of the (scaled) usize address space.
NUM_PAGES == 4

\* One past the largest usize: addresses are 0 .. ADDR_SPACE - 1.
ADDR_SPACE == PAGE_SIZE_4K * NUM_PAGES

\* isize::MAX of the scaled machine: the largest size a Layout may have.
ISIZE_MAX == (ADDR_SPACE \div 2) - 1

Addr == 0 .. (ADDR_SPACE - 1)

\* Execution contexts (cores), each with its own ACCESSING_USER_MEM.
NUM_CONTEXTS == 2

Contexts == 1 .. NUM_CONTEXTS

----------------------------------------------------------------------------
\* Bounds of the model.

\* Largest number of zero bytes in the initial user memory of a scan.
MaxZeros == 2

\* Largest number of pages that are not mapped read+write.
MaxRestricted == 1

\* Validator calls recorded per operation; a scan stops being followed
\* once it has made this many.
MaxVCalls == 6

\* Largest element count of a slice operation.
MaxLen == 2

\* Largest number of accesses a caller makes through one pointer.
MaxAccesses == 3

\* The largest element offset a caller passes to offset().
MaxOffset == 3

----------------------------------------------------------------------------
\* usize arithmetic: wrapping, as the release build computes it.
Wrap(n) == n % ADDR_SPACE

\* a & b on naturals, bit by bit.
RECURSIVE BitAnd(_, _)
BitAnd(a, b) ==
    IF a = 0 \/ b = 0 THEN 0
    ELSE (IF a % 2 = 1 /\ b % 2 = 1 THEN 1 ELSE 0) + 2 * BitAnd(a \div 2, b \div 2)

\* VirtAddr::align_down_4k
align_down_4k(a) == a - BitAnd(a, PAGE_SIZE_4K - 1)

\* MappingFlags::READ and MappingFlags::READ.union(MappingFlags::WRITE)
READ == {"read"}

READ_WRITE == {"read", "write"}

FlagSets == {READ, READ_WRITE}

\* Element types: u8 (c_char), u16, [u8; 2] (two bytes, alignment one), and
\* a user pointer (one byte wide on this machine).
ElemTypes == {"u8", "u16", "u8x2"}

SizeOf(T) == CASE T = "u8" -> 1 [] T = "u16" -> 2 [] T = "u8x2" -> 2 [] T = "ptr" -> 1

AlignOf(T) == CASE T = "u8" -> 1 [] T = "u16" -> 2 [] T = "u8x2" -> 1 [] T = "ptr" -> 1

\* start.as_usize() & (align - 1) != 0
Misaligned(start, align) == BitAnd(start, align - 1) # 0

\* LinuxResult values.
Ok(v) == [tag |-> "ok", val |-> v]

Err(e) == [tag |-> "err", err |-> e]

NoResult == [tag |-> "none"]

IsOk(r) == r.tag = "ok"

IsErr(r) == r.tag = "err"

IsErrOf(r, e) == r.tag = "err" /\ r.err = e

----------------------------------------------------------------------------
VARIABLES
    mem,                 \* user memory: a byte at every address
    uspace,              \* the validator: page permissions, pages that cannot
                         \* be populated, and the error values it returns
    ACCESSING_USER_MEM,  \* the per-context flag
    pc,                  \* where each context is
    op,                  \* the operation each context runs / ran last
    scan,                \* locals of check_null_terminated
    arr,                 \* locals of read_str_array
    ret,                 \* what the last operation returned
    vlog,                \* validator calls made by the operation, in order
    ulog,                \* user-memory accesses made by the operation, in order
    kbuf,                \* the caller's kernel buffer (read_slice_to)
    pre,                 \* user memory and kernel buffer when the operation began
    last,                \* the operation the context ran before this one, and its result
    caller,              \* what the kernel code calling the subsystem does
    tally                \* per context: the accessor calls made so far, those of
                         \* them with a misaligned start or an unrepresentable
                         \* length, and the check_region_access calls the validator
                         \* received for them

vars == <<mem, uspace, ACCESSING_USER_MEM, pc, op, scan, arr, ret, vlog, ulog, kbuf, pre,
          last, caller, tally>>

\* is_accessing_user_memory() on context c
is_accessing_user_memory(c) == ACCESSING_USER_MEM[c]

----------------------------------------------------------------------------
\* The validator (UserSpaceAccess), a page table with page granularity.

\* Pages holding a byte of [start, start + size).
PagesOf(start, size) == {align_down_4k(Wrap(start + i)) : i \in 0 .. (size - 1)}

\* One validator call, as recorded in vlog.
VCall(fn, start, size, flags, res, flag) ==
    [fn |-> fn, start |-> start, size |-> size, flags |-> flags, res |-> res,
     flag |-> flag]

check_region_access(u, start, size, flags) ==
    IF \A p \in PagesOf(start, size) : flags \subseteq u.perm[p]
    THEN Ok(<<>>) ELSE Err(u.access_err)

populate_region(u, start, size, flags) ==
    IF PagesOf(start, size) \cap u.nopop = {}
    THEN Ok(<<>>) ELSE Err(u.populate_err)

\* The bytes of the element of type T at address a.
ReadElem(m, a, T) == [i \in 1 .. SizeOf(T) |-> m[Wrap(a + i - 1)]]

\* T::default(): all bytes zero.
ZeroOf(T) == [i \in 1 .. SizeOf(T) |-> 0]

\* One user-memory access, as recorded in ulog.
UAccess(kind, a, size, flag) == [kind |-> kind, addr |-> a, size |-> size, flag |-> flag]

----------------------------------------------------------------------------
\* check_null_terminated

\* start_ptr.add(len)
ElemPtr(s) == Wrap(s.start + s.len * SizeOf(s.T))

\* while ptr as usize >= page.as_ptr() as usize
NeedsCheck(s) == ElemPtr(s) >= s.page

\* page += PAGE_SIZE_4K overflows usize
PageOverflows(page) == page + PAGE_SIZE_4K >= ADDR_SPACE

\* access_user_memory: v.store(true) before f() ...
SectionEnter(c) == [ACCESSING_USER_MEM EXCEPT ![c] = TRUE]

\* v.store(false) on a flag that all contexts share.
SectionExit_Shared(c) == [d \in Contexts |-> FALSE]

\* ... and v.store(false) after it.
SectionExit(c) == [ACCESSING_USER_MEM EXCEPT ![c] = FALSE]

\* Locals of a context that runs no scan / no read_str_array.
NoScan == [T |-> "u8", start |-> 0, flags |-> READ, len |-> 0, page |-> 0,
           res |-> NoResult]

NoArr == [ptr |-> 0, offset |-> 0, strings |-> <<>>, slots |-> <<>>]

\* Entry of check_null_terminated::<T>(uspace, start, flags) on context c,
\* from the operation o: the alignment test, then the section is entered.
ScanBegin(c, o, T, start, flags) ==
    /\ op' = [op EXCEPT ![c] = o]
    /\ pre' = [pre EXCEPT ![c] = [mem |-> mem, kbuf |-> kbuf[c]]]
    /\ vlog' = [vlog EXCEPT ![c] = <<>>]
    /\ ulog' = [ulog EXCEPT ![c] = <<>>]
    /\ IF Misaligned(start, AlignOf(T))
       THEN /\ ret' = [ret EXCEPT ![c] = Err("EFAULT")]
            /\ scan' = [scan EXCEPT ![c] = NoScan]
            /\ UNCHANGED <<ACCESSING_USER_MEM, pc>>
       ELSE /\ ACCESSING_USER_MEM' = SectionEnter(c)
            /\ scan' = [scan EXCEPT ![c] =
                          [T |-> T, start |-> start, flags |-> flags, len |-> 0,
                           page |-> align_down_4k(start), res |-> NoResult]]
            /\ pc' = [pc EXCEPT ![c] = "scan"]
            /\ ret' = [ret EXCEPT ![c] = NoResult]
    /\ UNCHANGED <<mem, uspace, arr, kbuf>>

\* A caller invokes check_null_terminated directly (get_as_null_terminated
\* and get_as_mut_null_terminated pass READ and READ|WRITE).
CheckNullTerminated(c) ==
    /\ pc[c] = "idle"
    /\ \E T \in ElemTypes, start \in Addr, flags \in FlagSets :
          /\ ScanBegin(c, [name |-> "check_null_terminated", T |-> T, start |-> start,
                           flags |-> flags], T, start, flags)
          /\ UNCHANGED <<last, caller, tally>>

\* ScanValidate with the error of the page check returned from
\* check_null_terminated itself instead of from the closure, so that the
\* store of false is skipped.
ScanValidate_EarlyReturn(c) ==
    LET s == scan[c]
        r == check_region_access(uspace, s.page, PAGE_SIZE_4K, s.flags)
    IN  /\ pc[c] = "scan"
        /\ NeedsCheck(s)
        /\ Len(vlog[c]) < MaxVCalls
        /\ vlog' = [vlog EXCEPT ![c] =
                      Append(@, VCall("check_region_access", s.page, PAGE_SIZE_4K,
                                      s.flags, r, ACCESSING_USER_MEM[c]))]
        /\ IF IsErr(r)
           THEN /\ scan' = [scan EXCEPT ![c].res = r]
                /\ ret' = [ret EXCEPT ![c] = r]
                /\ pc' = [pc EXCEPT ![c] = "idle"]
           ELSE /\ scan' = [scan EXCEPT ![c].page = Wrap(s.page + PAGE_SIZE_4K)]
                /\ UNCHANGED <<pc, ret>>
        /\ UNCHANGED <<mem, uspace, ACCESSING_USER_MEM, op, arr, ulog, kbuf, pre, last,
                       caller, tally>>

\* ScanValidate that advances the boundary by two pages after a success, so
\* that every other page goes unchecked.
ScanValidate_TwoPages(c) ==
    LET s == scan[c]
        r == check_region_access(uspace, s.page, PAGE_SIZE_4K, s.flags)
    IN  /\ pc[c] = "scan"
        /\ NeedsCheck(s)
        /\ Len(vlog[c]) < MaxVCalls
        /\ vlog' = [vlog EXCEPT ![c] =
                      Append(@, VCall("check_region_access", s.page, PAGE_SIZE_4K,
                                      s.flags, r, ACCESSING_USER_MEM[c]))]
        /\ IF IsErr(r)
           THEN /\ scan' = [scan EXCEPT ![c].res = r]
                /\ pc' = [pc EXCEPT ![c] = "scan_exit"]
           ELSE /\ scan' = [scan EXCEPT ![c].page = Wrap(s.page + 2 * PAGE_SIZE_4K)]
                /\ UNCHANGED pc
        /\ UNCHANGED <<mem, uspace, ACCESSING_USER_MEM, op, arr, ret, ulog, kbuf, pre,
                       last, caller, tally>>

\* One turn of the inner while loop: the page at the boundary is checked;
\* an error leaves the closure, success advances the boundary by one page.
\* When the boundary would pass the end of the address space the addition
\* wraps to page 0.
ScanValidate(c) ==
    LET s == scan[c]
        r == check_region_access(uspace, s.page, PAGE_SIZE_4K, s.flags)
    IN  /\ pc[c] = "scan"
        /\ NeedsCheck(s)
        /\ Len(vlog[c]) < MaxVCalls
        /\ vlog' = [vlog EXCEPT ![c] =
                      Append(@, VCall("check_region_access", s.page, PAGE_SIZE_4K,
                                      s.flags, r, ACCESSING_USER_MEM[c]))]
        /\ IF IsErr(r)
           THEN /\ scan' = [scan EXCEPT ![c].res = r]
                /\ pc' = [pc EXCEPT ![c] = "scan_exit"]
           ELSE /\ scan' = [scan EXCEPT ![c].page = Wrap(s.page + PAGE_SIZE_4K)]
                /\ UNCHANGED pc
        /\ UNCHANGED <<mem, uspace, ACCESSING_USER_MEM, op, arr, ret, ulog, kbuf, pre,
                       last, caller, tally>>

\* The same turn in a build that checks arithmetic overflow: computing the
\* end of the last page's range, or the boundary after it, panics.
ScanOverflowPanic(c) ==
    LET s == scan[c]
    IN  /\ pc[c] = "scan"
        /\ NeedsCheck(s)
        /\ PageOverflows(s.page)
        /\ pc' = [pc EXCEPT ![c] = "panic"]
        /\ UNCHANGED <<mem, uspace, ACCESSING_USER_MEM, op, scan, arr, ret, vlog, ulog,
                       kbuf, pre, last, caller, tally>>

\* ScanRead that forgets the validated boundary after every element, so
\* that the page of the next element is checked again.
ScanRead_ForgetPage(c) ==
    LET s == scan[c]
        ptr == ElemPtr(s)
    IN  /\ pc[c] = "scan"
        /\ ~NeedsCheck(s)
        /\ ulog' = [ulog EXCEPT ![c] =
                      Append(@, UAccess("r", ptr, SizeOf(s.T), ACCESSING_USER_MEM[c]))]
        /\ IF ReadElem(mem, ptr, s.T) = ZeroOf(s.T)
           THEN /\ scan' = [scan EXCEPT ![c].res = Ok(s.len)]
                /\ pc' = [pc EXCEPT ![c] = "scan_exit"]
           ELSE /\ scan' = [scan EXCEPT ![c].len = s.len + 1,
                                        ![c].page = align_down_4k(Wrap(ptr + SizeOf(s.T)))]
                /\ UNCHANGED pc
        /\ UNCHANGED <<mem, uspace, ACCESSING_USER_MEM, op, arr, ret, vlog, kbuf, pre,
                       last, caller, tally>>

\* ptr.read_volatile() == zero: break with Ok(len), else len += 1.
ScanRead(c) ==
    LET s == scan[c]
        ptr == ElemPtr(s)
    IN  /\ pc[c] = "scan"
        /\ ~NeedsCheck(s)
        /\ ulog' = [ulog EXCEPT ![c] =
                      Append(@, UAccess("r", ptr, SizeOf(s.T), ACCESSING_USER_MEM[c]))]
        /\ IF ReadElem(mem, ptr, s.T) = ZeroOf(s.T)
           THEN /\ scan' = [scan EXCEPT ![c].res = Ok(s.len)]
                /\ pc' = [pc EXCEPT ![c] = "scan_exit"]
           ELSE /\ scan' = [scan EXCEPT ![c].len = s.len + 1]
                /\ UNCHANGED pc
        /\ UNCHANGED <<mem, uspace, ACCESSING_USER_MEM, op, arr, ret, vlog, kbuf, pre,
                       last, caller, tally>>

\* The closure has returned: the flag is cleared and check_null_terminated
\* returns the closure's result to its caller.
ScanExit(c) ==
    /\ pc[c] = "scan_exit"
    /\ op[c].name = "check_null_terminated"
    /\ ACCESSING_USER_MEM' = SectionExit(c)
    /\ ret' = [ret EXCEPT ![c] = scan[c].res]
    /\ pc' = [pc EXCEPT ![c] = "idle"]
    /\ UNCHANGED <<mem, uspace, op, scan, arr, vlog, ulog, kbuf, pre, last, caller, tally>>

----------------------------------------------------------------------------
\* check_region and the accessors of the pointer wrappers.

\* What a call leaves behind: its result and the validator calls it made.
Checked(res, calls) == [res |-> res, calls |-> calls]

\* check_region that populates the range before it asks whether the range
\* is accessible.
check_region_PopulateFirst(u, start, size, align, flags, flag) ==
    IF Misaligned(start, align)
    THEN Checked(Err("EFAULT"), <<>>)
    ELSE LET q == populate_region(u, start, size, flags)
             cq == VCall("populate_region", start, size, flags, q, flag)
         IN  IF IsErr(q)
             THEN Checked(q, <<cq>>)
             ELSE LET a == check_region_access(u, start, size, flags)
                      ca == VCall("check_region_access", start, size, flags, a, flag)
                  IN  Checked(a, <<cq, ca>>)

\* check_region without the alignment test.
check_region_NoAlignTest(u, start, size, align, flags, flag) ==
    LET a == check_region_access(u, start, size, flags)
        ca == VCall("check_region_access", start, size, flags, a, flag)
    IN  IF IsErr(a)
        THEN Checked(a, <<ca>>)
        ELSE LET q == populate_region(u, start, size, flags)
                 cq == VCall("populate_region", start, size, flags, q, flag)
             IN  Checked(q, <<ca, cq>>)

\* check_region that calls populate_region and drops its result.
check_region_DropPopulate(u, start, size, align, flags, flag) ==
    IF Misaligned(start, align)
    THEN Checked(Err("EFAULT"), <<>>)
    ELSE LET a == check_region_access(u, start, size, flags)
             ca == VCall("check_region_access", start, size, flags, a, flag)
         IN  IF IsErr(a)
             THEN Checked(a, <<ca>>)
             ELSE LET q == populate_region(u, start, size, flags)
                      cq == VCall("populate_region", start, size, flags, q, flag)
                  IN  Checked(Ok(<<>>), <<ca, cq>>)

\* check_region(uspace, start, layout, access_flags); flag is the value of
\* the context's ACCESSING_USER_MEM while it runs.
check_region(u, start, size, align, flags, flag) ==
    IF Misaligned(start, align)
    THEN Checked(Err("EFAULT"), <<>>)
    ELSE LET a == check_region_access(u, start, size, flags)
             ca == VCall("check_region_access", start, size, flags, a, flag)
         IN  IF IsErr(a)
             THEN Checked(a, <<ca>>)
             ELSE LET q == populate_region(u, start, size, flags)
                      cq == VCall("populate_region", start, size, flags, q, flag)
                  IN  Checked(q, <<ca, cq>>)

\* Layout::array::<T>(len).map_err(|_| EINVAL): the byte length, or EINVAL
\* when it exceeds isize::MAX.
layout_array(T, len) ==
    IF len * SizeOf(T) > ISIZE_MAX THEN Err("EINVAL") ELSE Ok(len * SizeOf(T))

\* get_as_ref that trusts an earlier successful access at the same address
\* instead of asking the validator again.
get_as_ref_Cached(u, T, addr, flag) ==
    IF \E c \in Contexts : op[c].name # "none" /\ op[c].addr = addr /\ IsOk(ret[c])
    THEN Checked(Ok(<<>>), <<>>)
    ELSE check_region(u, addr, SizeOf(T), AlignOf(T), READ, flag)

\* UserReadable::get_as_ref
get_as_ref(u, T, addr, flag) == check_region(u, addr, SizeOf(T), AlignOf(T), READ, flag)

\* UserReadable::get_as_slice
get_as_slice(u, T, addr, len, flag) ==
    LET l == layout_array(T, len)
    IN  IF IsErr(l) THEN Checked(l, <<>>)
        ELSE check_region(u, addr, l.val, AlignOf(T), READ, flag)

\* UserPtr::get_as_mut
get_as_mut(u, T, addr, flag) ==
    check_region(u, addr, SizeOf(T), AlignOf(T), READ_WRITE, flag)

\* UserPtr::get_as_mut_slice
get_as_mut_slice(u, T, addr, len, flag) ==
    LET l == layout_array(T, len)
    IN  IF IsErr(l) THEN Checked(l, <<>>)
        ELSE check_region(u, addr, l.val, AlignOf(T), READ_WRITE, flag)

----------------------------------------------------------------------------
\* The facade UserSpace<A>.

\* User memory with the element v of type T stored at address a.
WriteElem(m, a, T, v) ==
    [x \in Addr |->
        IF \E i \in 1 .. SizeOf(T) : Wrap(a + i - 1) = x
        THEN v[CHOOSE i \in 1 .. SizeOf(T) : Wrap(a + i - 1) = x]
        ELSE m[x]]

\* The n elements of type T from address a on.
ReadSlice(m, a, T, n) == [i \in 1 .. n |-> ReadElem(m, a + (i - 1) * SizeOf(T), T)]

\* copy_nonoverlapping(slice, user_slice, len): element by element.
RECURSIVE WriteSlice(_, _, _, _)
WriteSlice(m, a, T, s) ==
    IF s = <<>> THEN m
    ELSE WriteSlice(WriteElem(m, a, T, Head(s)), a + SizeOf(T), T, Tail(s))

\* The user-memory accesses of a copy of n elements from or to address a.
SliceAccesses(kind, a, T, n, flag) ==
    [i \in 1 .. n |-> UAccess(kind, Wrap(a + (i - 1) * SizeOf(T)), SizeOf(T), flag)]

\* What one facade operation does: its result, the validator calls and the
\* user-memory accesses it made, the accessor methods it invoked, and user
\* memory and the caller's buffer after it.
Outcome(res, calls, accs, inv, m, kb) ==
    [ret |-> res, calls |-> calls, accs |-> accs, inv |-> inv, mem |-> m, kbuf |-> kb]

\* A reference or slice into user memory, as the facade returns it.
UserRef(a, T, n, mut) == [addr |-> a, T |-> T, len |-> n, mut |-> mut]

\* UserSpace::read
read(o, m, u, kb, flag) ==
    LET g == get_as_ref(u, o.T, o.addr, flag)
    IN  IF IsErr(g.res) THEN Outcome(g.res, g.calls, <<>>, <<"get_as_ref">>, m, kb)
        ELSE Outcome(Ok(ReadElem(m, o.addr, o.T)), g.calls,
                     <<UAccess("r", o.addr, SizeOf(o.T), flag)>>, <<"get_as_ref">>, m, kb)

\* UserSpace::read_slice
read_slice(o, m, u, kb, flag) ==
    LET g == get_as_slice(u, o.T, o.addr, o.len, flag)
    IN  IF IsErr(g.res) THEN Outcome(g.res, g.calls, <<>>, <<"get_as_slice">>, m, kb)
        ELSE Outcome(Ok(UserRef(o.addr, o.T, o.len, FALSE)), g.calls, <<>>,
                     <<"get_as_slice">>, m, kb)

\* UserSpace::read_slice_to
read_slice_to(o, m, u, kb, flag) ==
    LET g == get_as_slice(u, o.T, o.addr, Len(kb), flag)
    IN  IF IsErr(g.res) THEN Outcome(g.res, g.calls, <<>>, <<"get_as_slice">>, m, kb)
        ELSE Outcome(Ok(<<>>), g.calls, SliceAccesses("r", o.addr, o.T, Len(kb), flag),
                     <<"get_as_slice">>, m, ReadSlice(m, o.addr, o.T, Len(kb)))

\* UserSpace::raw_ptr
raw_ptr(o, m, u, kb, flag) ==
    LET g == get_as_mut(u, o.T, o.addr, flag)
    IN  IF IsErr(g.res) THEN Outcome(g.res, g.calls, <<>>, <<"get_as_mut">>, m, kb)
        ELSE Outcome(Ok(UserRef(o.addr, o.T, 1, TRUE)), g.calls, <<>>, <<"get_as_mut">>,
                     m, kb)

\* UserSpace::raw_slice
raw_slice(o, m, u, kb, flag) ==
    LET g == get_as_mut_slice(u, o.T, o.addr, o.len, flag)
    IN  IF IsErr(g.res) THEN Outcome(g.res, g.calls, <<>>, <<"get_as_mut_slice">>, m, kb)
        ELSE Outcome(Ok(UserRef(o.addr, o.T, o.len, TRUE)), g.calls, <<>>,
                     <<"get_as_mut_slice">>, m, kb)

\* write that stores the value before it looks at the result of the check.
write_StoreFirst(o, m, u, kb, flag) ==
    LET g == get_as_mut(u, o.T, o.addr, flag)
    IN  Outcome(g.res, g.calls, <<UAccess("w", o.addr, SizeOf(o.T), flag)>>,
                <<"get_as_mut">>, WriteElem(m, o.addr, o.T, o.val), kb)

\* write that stores only the first byte of the value.
write_FirstByte(o, m, u, kb, flag) ==
    LET g == get_as_mut(u, o.T, o.addr, flag)
    IN  IF IsErr(g.res) THEN Outcome(g.res, g.calls, <<>>, <<"get_as_mut">>, m, kb)
        ELSE Outcome(Ok(<<>>), g.calls, <<UAccess("w", o.addr, SizeOf(o.T), flag)>>,
                     <<"get_as_mut">>, [m EXCEPT ![o.addr] = o.val[1]], kb)

\* UserSpace::write
write(o, m, u, kb, flag) ==
    LET g == get_as_mut(u, o.T, o.addr, flag)
    IN  IF IsErr(g.res) THEN Outcome(g.res, g.calls, <<>>, <<"get_as_mut">>, m, kb)
        ELSE Outcome(Ok(<<>>), g.calls, <<UAccess("w", o.addr, SizeOf(o.T), flag)>>,
                     <<"get_as_mut">>, WriteElem(m, o.addr, o.T, o.val), kb)

\* UserSpace::write_slice
write_slice(o, m, u, kb, flag) ==
    LET g == get_as_mut_slice(u, o.T, o.addr, Len(o.slice), flag)
    IN  IF IsErr(g.res) THEN Outcome(g.res, g.calls, <<>>, <<"get_as_mut_slice">>, m, kb)
        ELSE Outcome(Ok(<<>>), g.calls,
                     SliceAccesses("w", o.addr, o.T, Len(o.slice), flag),
                     <<"get_as_mut_slice">>, WriteSlice(m, o.addr, o.T, o.slice), kb)

\* The facade method the call o names, applied to o's arguments.
Method(o, m, u, kb, flag) ==
    CASE o.name = "read" -> read(o, m, u, kb, flag)
      [] o.name = "read_slice" -> read_slice(o, m, u, kb, flag)
      [] o.name = "read_slice_to" -> read_slice_to(o, m, u, kb, flag)
      [] o.name = "raw_ptr" -> raw_ptr(o, m, u, kb, flag)
      [] o.name = "raw_slice" -> raw_slice(o, m, u, kb, flag)
      [] o.name = "write" -> write(o, m, u, kb, flag)
      [] o.name = "write_slice" -> write_slice(o, m, u, kb, flag)

\* is_null that holds of no pointer.
is_null_Never(addr) == FALSE

\* $ptr.is_null()
is_null(addr) == addr = 0

\* Option values.
None == [some |-> FALSE]

Some(v) == [some |-> TRUE, val |-> v]

\* nullable!(uspace.method(ptr, args...))
nullable(o, m, u, kb, flag) ==
    IF is_null(o.addr)
    THEN Outcome(Ok(None), <<>>, <<>>, <<>>, m, kb)
    ELSE LET r == Method(o, m, u, kb, flag)
         IN  [r EXCEPT !.ret = IF IsOk(r.ret) THEN Ok(Some(r.ret.val)) ELSE r.ret]

\* The check_region_access calls among the validator calls of an operation.
NumAccessChecks(calls) ==
    Cardinality({i \in 1 .. Len(calls) : calls[i].fn = "check_region_access"})

\* The call o has a misaligned start or a byte length that Layout::array
\* rejects.
StopsShort(o) == Misaligned(o.addr, AlignOf(o.T)) \/ IsErr(layout_array(o.T, o.len))

\* Context c has run no operation yet.
Fresh(c) == op[c].name = "none"

\* The last operation of context c stored to user memory and returned Ok.
Stored(c) == op[c].name \in {"write", "write_slice"} /\ IsOk(ret[c])

\* The calling kernel code either makes one call of the facade, or stores
\* to user memory and then reads user memory back, or makes several
\* accesses through one pointer.
MayStart(c, o) ==
    IF caller = "round_trip"
    THEN \/ Fresh(c) /\ o.name \in {"write", "write_slice"} /\ ~o.nullable
         \/ /\ Stored(c)
            /\ o.name \in {"read", "read_slice_to"}
            /\ o.kind = "UserConstPtr"
            /\ ~o.nullable
    ELSE IF caller = "repeat"
    THEN /\ ~o.nullable
         /\ o.name \in {"read", "read_slice", "raw_ptr", "raw_slice", "write"}
         /\ tally[c].accesses < MaxAccesses
         /\ \/ Fresh(c)
            \/ /\ ~Fresh(c)
               /\ o.kind = op[c].kind /\ o.T = op[c].T /\ o.addr = op[c].addr
    ELSE Fresh(c)

\* The operation o (a facade method, possibly through nullable!) runs to
\* completion on context c, called with the kernel buffer kb.
Run(c, o, kb) ==
    LET r == IF o.nullable
             THEN nullable(o, mem, uspace, kb, ACCESSING_USER_MEM[c])
             ELSE Method(o, mem, uspace, kb, ACCESSING_USER_MEM[c])
    IN  /\ pc[c] = "idle"
        /\ MayStart(c, o)
        /\ last' = [last EXCEPT ![c] = [op |-> op[c], ret |-> ret[c]]]
        /\ op' = [op EXCEPT ![c] = [o EXCEPT !.inv = r.inv]]
        /\ pre' = [pre EXCEPT ![c] = [mem |-> mem, kbuf |-> kb]]
        /\ ret' = [ret EXCEPT ![c] = r.ret]
        /\ vlog' = [vlog EXCEPT ![c] = r.calls]
        /\ ulog' = [ulog EXCEPT ![c] = r.accs]
        /\ mem' = r.mem
        /\ kbuf' = [kbuf EXCEPT ![c] = r.kbuf]
        /\ scan' = [scan EXCEPT ![c] = NoScan]
        /\ tally' = [tally EXCEPT ![c] =
                       [accesses |-> @.accesses + Len(r.inv),
                        short |-> @.short + (IF Len(r.inv) > 0 /\ StopsShort(o) THEN 1 ELSE 0),
                        checks |-> @.checks + NumAccessChecks(r.calls)]]
        /\ UNCHANGED <<uspace, ACCESSING_USER_MEM, pc, arr, caller>>

\* A call of a facade method: its name, the pointer (its kind, element type
\* and address) and the further arguments.
Call(name, kind, T, addr, len, val, slice, nl) ==
    [name |-> name, kind |-> kind, T |-> T, addr |-> addr, len |-> len, val |-> val,
     slice |-> slice, nullable |-> nl, inv |-> <<>>]

\* Both pointer wrappers implement UserReadable.
PtrKinds == {"UserPtr", "UserConstPtr"}

\* Values a caller writes: all bytes zero, or bytes 8, 9, ...
ElemVals(T) == {ZeroOf(T), [i \in 1 .. SizeOf(T) |-> 7 + i]}

\* The slice of n elements a caller writes: element i has bytes 10 i + j.
SliceOf(T, n) == [i \in 1 .. n |-> [j \in 1 .. SizeOf(T) |-> 10 * i + j]]

\* The kernel buffer of n elements a caller passes to read_slice_to.
BufOf(T, n) == [i \in 1 .. n |-> [j \in 1 .. SizeOf(T) |-> 255]]

Read(c) ==
    \E kind \in PtrKinds, T \in ElemTypes, addr \in Addr :
        Run(c, Call("read", kind, T, addr, 1, <<>>, <<>>, FALSE), <<>>)

ReadSliceOp(c) ==
    \E kind \in PtrKinds, T \in ElemTypes, addr \in Addr, n \in 0 .. MaxLen :
        Run(c, Call("read_slice", kind, T, addr, n, <<>>, <<>>, FALSE), <<>>)

ReadSliceTo(c) ==
    \E kind \in PtrKinds, T \in ElemTypes, addr \in Addr, n \in 0 .. MaxLen :
        Run(c, Call("read_slice_to", kind, T, addr, n, <<>>, <<>>, FALSE), BufOf(T, n))

RawPtr(c) ==
    \E T \in ElemTypes, addr \in Addr :
        Run(c, Call("raw_ptr", "UserPtr", T, addr, 1, <<>>, <<>>, FALSE), <<>>)

RawSlice(c) ==
    \E T \in ElemTypes, addr \in Addr, n \in 0 .. MaxLen :
        Run(c, Call("raw_slice", "UserPtr", T, addr, n, <<>>, <<>>, FALSE), <<>>)

Write(c) ==
    \E T \in ElemTypes, addr \in Addr :
        \E v \in ElemVals(T) :
            Run(c, Call("write", "UserPtr", T, addr, 1, v, <<>>, FALSE), <<>>)

WriteSliceOp(c) ==
    \E T \in ElemTypes, addr \in Addr, n \in 0 .. MaxLen :
        Run(c, Call("write_slice", "UserPtr", T, addr, n, <<>>, SliceOf(T, n), FALSE), <<>>)

\* nullable! around a method that takes one pointer.
Nullable(c) ==
    \E T \in ElemTypes, addr \in Addr :
        \/ Run(c, Call("read", "UserConstPtr", T, addr, 1, <<>>, <<>>, TRUE), <<>>)
        \/ Run(c, Call("read_slice", "UserConstPtr", T, addr, 1, <<>>, <<>>, TRUE), <<>>)
        \/ Run(c, Call("raw_ptr", "UserPtr", T, addr, 1, <<>>, <<>>, TRUE), <<>>)
        \/ \E v \in ElemVals(T) :
              Run(c, Call("write", "UserPtr", T, addr, 1, v, <<>>, TRUE), <<>>)

\* VirtAddrRange::from_start_size(start, size) in a build that checks the
\* addition: a range that reaches the end of the address space panics.
RangeOverflows(start, size) == start + size >= ADDR_SPACE

RangePanic(c) ==
    /\ pc[c] = "idle"
    /\ Fresh(c)
    /\ \E T \in ElemTypes, addr \in Addr, n \in 1 .. MaxLen :
          /\ ~Misaligned(addr, AlignOf(T))
          /\ IsOk(layout_array(T, n))
          /\ RangeOverflows(addr, n * SizeOf(T))
          /\ op' = [op EXCEPT ![c] = Call("read_slice", "UserConstPtr", T, addr, n, <<>>,
                                          <<>>, FALSE)]
    /\ pc' = [pc EXCEPT ![c] = "panic"]
    /\ last' = [last EXCEPT ![c] = [op |-> op[c], ret |-> ret[c]]]
    /\ pre' = [pre EXCEPT ![c] = [mem |-> mem, kbuf |-> <<>>]]
    /\ ret' = [ret EXCEPT ![c] = NoResult]
    /\ vlog' = [vlog EXCEPT ![c] = <<>>]
    /\ ulog' = [ulog EXCEPT ![c] = <<>>]
    /\ UNCHANGED <<mem, uspace, ACCESSING_USER_MEM, scan, arr, kbuf, caller, tally>>

----------------------------------------------------------------------------
\* Initial states.

Bytes01 == {m \in [Addr -> {0, 1}] : Cardinality({a \in Addr : m[a] = 0}) <= MaxZeros}

PageBases == {p * PAGE_SIZE_4K : p \in 0 .. (NUM_PAGES - 1)}

PermTables ==
    {t \in [PageBases -> {{}, READ, READ_WRITE}] :
        Cardinality({p \in PageBases : t[p] # READ_WRITE}) <= MaxRestricted}

InitContexts ==
    /\ ACCESSING_USER_MEM = [c \in Contexts |-> FALSE]
    /\ pc = [c \in Contexts |-> "idle"]
    /\ op = [c \in Contexts |-> [name |-> "none"]]
    /\ scan = [c \in Contexts |-> NoScan]
    /\ arr = [c \in Contexts |-> NoArr]
    /\ ret = [c \in Contexts |-> NoResult]
    /\ vlog = [c \in Contexts |-> <<>>]
    /\ ulog = [c \in Contexts |-> <<>>]
    /\ kbuf = [c \in Contexts |-> <<>>]
    /\ pre = [c \in Contexts |-> [mem |-> mem, kbuf |-> <<>>]]
    /\ last = [c \in Contexts |-> [op |-> [name |-> "none"], ret |-> NoResult]]
    /\ tally = [c \in Contexts |-> [accesses |-> 0, short |-> 0, checks |-> 0]]

\* Scans of arbitrary memory under an arbitrary page table.
InitScan ==
    /\ mem \in Bytes01
    /\ \E t \in PermTables :
          uspace = [perm |-> t, nopop |-> {}, access_err |-> "EFAULT",
                    populate_err |-> "EFAULT"]
    /\ InitContexts
    /\ caller = "scan"

NextScan ==
    \/ CheckNullTerminated(1)
    \/ ScanValidate(1)
    \/ ScanOverflowPanic(1)
    \/ ScanRead(1)
    \/ ScanExit(1)

SpecScan == InitScan /\ [][NextScan]_vars

\* The validators of the facade's callers: every page mapped read+write,
\* but for at most one page that is unmapped, read-only, or mapped but
\* impossible to populate; the validator returns EFAULT, or error values of
\* its own.
FacadeValidators ==
    LET full == [p \in PageBases |-> READ_WRITE]
        tables == {<<full, {}>>}
                    \cup {<<[full EXCEPT ![p] = {}], {}>> : p \in PageBases}
                    \cup {<<[full EXCEPT ![p] = READ], {}>> : p \in PageBases}
                    \cup {<<full, {p}>> : p \in PageBases}
        errs == {<<"EFAULT", "EFAULT">>, <<"EACCES", "ENOMEM">>}
    IN  {[perm |-> t[1], nopop |-> t[2], access_err |-> e[1], populate_err |-> e[2]] :
            t \in tables, e \in errs}

\* User memory of the facade's callers: byte a + 1 at address a.
InitFacade ==
    /\ mem = [a \in Addr |-> a + 1]
    /\ uspace \in FacadeValidators
    /\ InitContexts
    /\ caller = "one_call"

\* The same, for a caller that stores and reads back, under the validators
\* that return EFAULT.
InitRoundTrip ==
    /\ mem = [a \in Addr |-> a + 1]
    /\ uspace \in {u \in FacadeValidators : u.access_err = "EFAULT"}
    /\ InitContexts
    /\ caller = "round_trip"

\* One facade operation, from every initial state.
Next ==
    \/ Read(1)
    \/ ReadSliceOp(1)
    \/ ReadSliceTo(1)
    \/ RawPtr(1)
    \/ RawSlice(1)
    \/ Write(1)
    \/ WriteSliceOp(1)
    \/ Nullable(1)
    \/ RangePanic(1)

Spec == InitFacade /\ [][Next]_vars

\* A store to user memory, then reads of user memory.
NextRoundTrip ==
    \/ Write(1)
    \/ WriteSliceOp(1)
    \/ Read(1)
    \/ ReadSliceTo(1)

SpecRoundTrip == InitRoundTrip /\ [][NextRoundTrip]_vars

\* The validator stops accepting a page between two accesses of context c
\* (the page is unmapped).
Revoke(c) ==
    /\ caller = "repeat"
    /\ pc[c] = "idle"
    /\ ~Fresh(c)
    /\ tally[c].accesses < MaxAccesses
    /\ \A p \in PageBases : uspace.perm[p] = READ_WRITE
    /\ \E p \in PageBases : uspace' = [uspace EXCEPT !.perm[p] = {}]
    /\ UNCHANGED <<mem, ACCESSING_USER_MEM, pc, op, scan, arr, ret, vlog, ulog, kbuf, pre,
                   last, caller, tally>>

\* A caller that makes several accesses through one pointer, under a
\* validator that maps every page at first.
InitRepeat ==
    /\ mem = [a \in Addr |-> a + 1]
    /\ uspace = [perm |-> [p \in PageBases |-> READ_WRITE], nopop |-> {},
                 access_err |-> "EFAULT", populate_err |-> "EFAULT"]
    /\ InitContexts
    /\ caller = "repeat"

NextRepeat ==
    \/ Read(1)
    \/ ReadSliceOp(1)
    \/ RawPtr(1)
    \/ RawSlice(1)
    \/ Write(1)
    \/ Revoke(1)

SpecRepeat == InitRepeat /\ [][NextRepeat]_vars

----------------------------------------------------------------------------
\* read_str_array, and the string reads it makes.

\* ptr.offset(offset): self.0.add(offset)
ptr_offset(addr, T, n) == Wrap(addr + n * SizeOf(T))

\* The value of a pointer read from user memory.
PtrValue(bytes) == bytes[1]

\* slice::from_raw_parts(self.0, len), as bytes
StrBytes(m, start, len) == [i \in 1 .. len |-> m[Wrap(start + i - 1)]]

\* str::from_utf8 over code units of the machine's byte width: a unit with
\* the top bit clear is a character of its own; a unit with the two top bits
\* set leads a character of two units, whose second unit has the top bits
\* 1, 0; every other sequence is rejected.
IsAsciiUnit(b) == b < ADDR_SPACE \div 2

IsLeadUnit(b) == b >= (ADDR_SPACE \div 2) + (ADDR_SPACE \div 4)

IsContinuationUnit(b) == ~IsAsciiUnit(b) /\ ~IsLeadUnit(b)

RECURSIVE Utf8Valid(_)
Utf8Valid(s) ==
    IF s = <<>> THEN TRUE
    ELSE IF IsAsciiUnit(Head(s)) THEN Utf8Valid(Tail(s))
    ELSE IF IsLeadUnit(Head(s)) /\ Len(s) >= 2 /\ IsContinuationUnit(s[2])
         THEN Utf8Valid(Tail(Tail(s)))
    ELSE FALSE

\* str::from_utf8(slice).map_err(|_| LinuxError::EILSEQ)
from_utf8(s) == IF Utf8Valid(s) THEN Ok(s) ELSE Err("EILSEQ")

\* Entry of read_str_array(ptr): strings = Vec::new(), offset = 0.
ReadStrArray(c) ==
    /\ pc[c] = "idle"
    /\ Fresh(c)
    /\ \E p \in Addr :
          /\ op' = [op EXCEPT ![c] = Call("read_str_array", "UserConstPtr", "ptr", p, 0,
                                          <<>>, <<>>, FALSE)]
          /\ arr' = [arr EXCEPT ![c] = [ptr |-> p, offset |-> 0, strings |-> <<>>,
                                        slots |-> <<>>]]
    /\ pc' = [pc EXCEPT ![c] = "arr_loop"]
    /\ last' = [last EXCEPT ![c] = [op |-> op[c], ret |-> ret[c]]]
    /\ pre' = [pre EXCEPT ![c] = [mem |-> mem, kbuf |-> kbuf[c]]]
    /\ ret' = [ret EXCEPT ![c] = NoResult]
    /\ vlog' = [vlog EXCEPT ![c] = <<>>]
    /\ ulog' = [ulog EXCEPT ![c] = <<>>]
    /\ UNCHANGED <<mem, uspace, ACCESSING_USER_MEM, scan, kbuf, caller, tally>>

\* The head of the loop: str_ptr = self.read(ptr.offset(offset))?; a null
\* str_ptr ends the loop with Ok(strings); otherwise read_str(str_ptr)
\* enters check_null_terminated::<c_char>(uspace, str_ptr, READ). The
\* validator calls and accesses logged are those of this turn of the loop.
ArrReadSlot(c) ==
    LET a == arr[c]
        slot == ptr_offset(a.ptr, "ptr", a.offset)
        r == read(Call("read", "UserConstPtr", "ptr", slot, 1, <<>>, <<>>, FALSE),
                  mem, uspace, kbuf[c], ACCESSING_USER_MEM[c])
        str_ptr == PtrValue(r.ret.val)
    IN  /\ pc[c] = "arr_loop"
        /\ vlog' = [vlog EXCEPT ![c] = r.calls]
        /\ ulog' = [ulog EXCEPT ![c] = r.accs]
        /\ arr' = [arr EXCEPT ![c].slots = Append(@, a.offset)]
        /\ IF IsErr(r.ret)
           THEN /\ ret' = [ret EXCEPT ![c] = r.ret]
                /\ pc' = [pc EXCEPT ![c] = "idle"]
                /\ UNCHANGED <<scan, ACCESSING_USER_MEM>>
           ELSE IF is_null(str_ptr)
           THEN /\ ret' = [ret EXCEPT ![c] = Ok(a.strings)]
                /\ pc' = [pc EXCEPT ![c] = "idle"]
                /\ UNCHANGED <<scan, ACCESSING_USER_MEM>>
           ELSE IF Misaligned(str_ptr, AlignOf("u8"))
           THEN /\ ret' = [ret EXCEPT ![c] = Err("EFAULT")]
                /\ pc' = [pc EXCEPT ![c] = "idle"]
                /\ UNCHANGED <<scan, ACCESSING_USER_MEM>>
           ELSE /\ ACCESSING_USER_MEM' = SectionEnter(c)
                /\ scan' = [scan EXCEPT ![c] =
                              [T |-> "u8", start |-> str_ptr, flags |-> READ, len |-> 0,
                               page |-> align_down_4k(str_ptr), res |-> NoResult]]
                /\ pc' = [pc EXCEPT ![c] = "scan"]
                /\ UNCHANGED ret
        /\ UNCHANGED <<mem, uspace, op, kbuf, pre, last, caller, tally>>

\* The slot read in a build that checks the addition of
\* VirtAddrRange::from_start_size: the range of a slot in the last bytes of
\* the address space panics.
ArrSlotPanic(c) ==
    /\ pc[c] = "arr_loop"
    /\ RangeOverflows(ptr_offset(arr[c].ptr, "ptr", arr[c].offset), SizeOf("ptr"))
    /\ pc' = [pc EXCEPT ![c] = "panic"]
    /\ arr' = [arr EXCEPT ![c].slots = Append(@, arr[c].offset)]
    /\ UNCHANGED <<mem, uspace, ACCESSING_USER_MEM, op, scan, ret, vlog, ulog, kbuf, pre,
                   last, caller, tally>>

\* check_null_terminated has returned into get_as_str: its error is returned
\* from read_str_array; its length makes the byte slice that from_utf8
\* decodes, EILSEQ is returned for an invalid one, and a valid one is copied
\* with to_string() and pushed before offset += 1.
ArrScanExit(c) ==
    LET s == scan[c]
        a == arr[c]
        str == from_utf8(StrBytes(mem, s.start, s.res.val))
    IN  /\ pc[c] = "scan_exit"
        /\ op[c].name = "read_str_array"
        /\ ACCESSING_USER_MEM' = SectionExit(c)
        /\ IF IsErr(s.res)
           THEN /\ ret' = [ret EXCEPT ![c] = s.res]
                /\ pc' = [pc EXCEPT ![c] = "idle"]
                /\ UNCHANGED <<arr, ulog>>
           ELSE /\ ulog' = [ulog EXCEPT ![c] =
                              Append(@, UAccess("r", s.start, s.res.val, FALSE))]
                /\ IF IsErr(str)
                   THEN /\ ret' = [ret EXCEPT ![c] = str]
                        /\ pc' = [pc EXCEPT ![c] = "idle"]
                        /\ UNCHANGED arr
                   ELSE /\ arr' = [arr EXCEPT ![c].strings = Append(@, str.val),
                                              ![c].offset = a.offset + 1]
                        /\ pc' = [pc EXCEPT ![c] = "arr_loop"]
                        /\ UNCHANGED ret
        /\ UNCHANGED <<mem, uspace, op, scan, vlog, kbuf, pre, last, caller, tally>>

\* User memory of a caller of read_str_array: string bytes in the two low
\* pages (address 0 is the null pointer), pointers to them in the two high
\* pages.
ArrMemories ==
    {[a \in Addr |->
        CASE a = 0 -> 0
          [] a \in 1 .. 3 -> lo[a]
          [] a \in 4 .. 6 -> hi[a - 3]
          [] OTHER -> 0] :
        lo \in {l \in [1 .. 3 -> {0, 1, 4, 6}] : l[1] \in {1, 6} /\ l[3] \in {0, 1}},
        hi \in [1 .. 3 -> 0 .. 3]}

InitArr ==
    /\ mem \in ArrMemories
    /\ \E t \in {pt \in PermTables : \A p \in PageBases : pt[p] # READ} :
          uspace = [perm |-> t, nopop |-> {}, access_err |-> "EFAULT",
                    populate_err |-> "EFAULT"]
    /\ InitContexts
    /\ caller = "read_str_array"

NextArr ==
    \/ ReadStrArray(1)
    \/ ArrReadSlot(1)
    \/ ArrSlotPanic(1)
    \/ ScanValidate(1)
    \/ ScanOverflowPanic(1)
    \/ ScanRead(1)
    \/ ArrScanExit(1)

SpecArr == InitArr /\ [][NextArr]_vars

----------------------------------------------------------------------------
\* The null-terminated accessors and read_str, called on their own.

\* get_as_null_terminated on either pointer type:
\* check_null_terminated::<T, A>(uspace, self.address(), MappingFlags::READ)
GetAsNullTerminated(c) ==
    /\ pc[c] = "idle"
    /\ Fresh(c)
    /\ \E kind \in PtrKinds, T \in ElemTypes, addr \in Addr :
          ScanBegin(c, Call("get_as_null_terminated", kind, T, addr, 0, <<>>, <<>>, FALSE),
                    T, addr, READ)
    /\ UNCHANGED <<last, caller, tally>>

\* get_as_mut_null_terminated with the read permission only.
GetAsMutNullTerminated_ReadOnly(c) ==
    /\ pc[c] = "idle"
    /\ Fresh(c)
    /\ \E T \in ElemTypes, addr \in Addr :
          ScanBegin(c, Call("get_as_mut_null_terminated", "UserPtr", T, addr, 0, <<>>, <<>>,
                            FALSE), T, addr, READ)
    /\ UNCHANGED <<last, caller, tally>>

\* UserPtr::get_as_mut_null_terminated:
\* check_null_terminated::<T, A>(uspace, self.address(), READ | WRITE)
GetAsMutNullTerminated(c) ==
    /\ pc[c] = "idle"
    /\ Fresh(c)
    /\ \E T \in ElemTypes, addr \in Addr :
          ScanBegin(c, Call("get_as_mut_null_terminated", "UserPtr", T, addr, 0, <<>>, <<>>,
                            FALSE), T, addr, READ_WRITE)
    /\ UNCHANGED <<last, caller, tally>>

\* UserSpace::read_str(ptr: UserConstPtr<c_char>): get_as_str, which begins
\* with get_as_null_terminated.
ReadStr(c) ==
    /\ pc[c] = "idle"
    /\ Fresh(c)
    /\ \E addr \in Addr :
          ScanBegin(c, Call("read_str", "UserConstPtr", "u8", addr, 0, <<>>, <<>>, FALSE),
                    "u8", addr, READ)
    /\ UNCHANGED <<last, caller, tally>>

\* check_null_terminated has returned into get_as_null_terminated or
\* get_as_mut_null_terminated: its error is returned, its length makes the
\* slice.
NullTerminatedExit(c) ==
    LET s == scan[c]
    IN  /\ pc[c] = "scan_exit"
        /\ op[c].name \in {"get_as_null_terminated", "get_as_mut_null_terminated"}
        /\ ACCESSING_USER_MEM' = SectionExit(c)
        /\ ret' = [ret EXCEPT ![c] =
                     IF IsErr(s.res) THEN s.res
                     ELSE Ok(UserRef(s.start, s.T, s.res.val,
                                     op[c].name = "get_as_mut_null_terminated"))]
        /\ pc' = [pc EXCEPT ![c] = "idle"]
        /\ UNCHANGED <<mem, uspace, op, scan, arr, vlog, ulog, kbuf, pre, last, caller,
                       tally>>

\* check_null_terminated has returned into get_as_str: its error is
\* returned; otherwise from_utf8 decodes the bytes of the slice.
ReadStrExit(c) ==
    LET s == scan[c]
    IN  /\ pc[c] = "scan_exit"
        /\ op[c].name = "read_str"
        /\ ACCESSING_USER_MEM' = SectionExit(c)
        /\ IF IsErr(s.res)
           THEN /\ ret' = [ret EXCEPT ![c] = s.res]
                /\ UNCHANGED ulog
           ELSE /\ ret' = [ret EXCEPT ![c] = from_utf8(StrBytes(mem, s.start, s.res.val))]
                /\ ulog' = [ulog EXCEPT ![c] =
                              Append(@, UAccess("r", s.start, s.res.val, FALSE))]
        /\ pc' = [pc EXCEPT ![c] = "idle"]
        /\ UNCHANGED <<mem, uspace, op, scan, arr, vlog, kbuf, pre, last, caller, tally>>

\* User memory of a caller of any accessor: strings at addresses 1 and 2,
\* the array of their pointers at address 4.
AccessorMemories ==
    {m \in ArrMemories : m[3] = 0 /\ m[2] # 0 /\ m[2] # 6 /\ m[4] = 1 /\ m[5] = 2 /\ m[6] = 0}

InitAccessors ==
    /\ mem \in AccessorMemories
    /\ uspace \in {u \in FacadeValidators : u.access_err = "EFAULT"}
    /\ InitContexts
    /\ caller = "one_call"

\* One call of any accessor or facade method.
NextAccessors ==
    \/ Read(1)
    \/ ReadSliceOp(1)
    \/ ReadSliceTo(1)
    \/ RawPtr(1)
    \/ RawSlice(1)
    \/ Write(1)
    \/ WriteSliceOp(1)
    \/ GetAsNullTerminated(1)
    \/ GetAsMutNullTerminated(1)
    \/ ReadStr(1)
    \/ ReadStrArray(1)
    \/ ArrReadSlot(1)
    \/ ArrSlotPanic(1)
    \/ ScanValidate(1)
    \/ ScanOverflowPanic(1)
    \/ ScanRead(1)
    \/ NullTerminatedExit(1)
    \/ ReadStrExit(1)
    \/ ArrScanExit(1)

SpecAccessors == InitAccessors /\ [][NextAccessors]_vars

----------------------------------------------------------------------------
\* The slice accessors of lib.rs, which unwrap the layout of the slice.

\* UserConstPtr::get_as_slice and UserPtr::get_as_mut_slice of lib.rs:
\* Layout::array::<T>(len).unwrap() panics when the byte length exceeds
\* isize::MAX; otherwise the region is checked with Self::ACCESS_FLAGS.
GetAsSliceUnwrap(c) ==
    /\ pc[c] = "idle"
    /\ Fresh(c)
    /\ \E kind \in PtrKinds, T \in ElemTypes, addr \in Addr, n \in 0 .. MaxLen :
          LET o == Call(IF kind = "UserPtr" THEN "get_as_mut_slice" ELSE "get_as_slice",
                        kind, T, addr, n, <<>>, <<>>, FALSE)
              l == layout_array(T, n)
              g == check_region(uspace, addr, l.val, AlignOf(T),
                                IF kind = "UserPtr" THEN READ_WRITE ELSE READ,
                                ACCESSING_USER_MEM[c])
          IN  /\ op' = [op EXCEPT ![c] = o]
              /\ IF IsErr(l)
                 THEN /\ pc' = [pc EXCEPT ![c] = "panic"]
                      /\ ret' = [ret EXCEPT ![c] = NoResult]
                      /\ vlog' = [vlog EXCEPT ![c] = <<>>]
                 ELSE /\ pc' = pc
                      /\ ret' = [ret EXCEPT ![c] =
                                   IF IsErr(g.res) THEN g.res
                                   ELSE Ok(UserRef(addr, T, n, kind = "UserPtr"))]
                      /\ vlog' = [vlog EXCEPT ![c] = g.calls]
    /\ last' = [last EXCEPT ![c] = [op |-> op[c], ret |-> ret[c]]]
    /\ pre' = [pre EXCEPT ![c] = [mem |-> mem, kbuf |-> <<>>]]
    /\ ulog' = [ulog EXCEPT ![c] = <<>>]
    /\ UNCHANGED <<mem, uspace, ACCESSING_USER_MEM, scan, arr, kbuf, caller, tally>>

\* One call of a slice operation: of the facade, or of the pointer wrappers
\* of lib.rs.
NextSlices ==
    \/ ReadSliceOp(1)
    \/ ReadSliceTo(1)
    \/ RawSlice(1)
    \/ WriteSliceOp(1)
    \/ GetAsSliceUnwrap(1)

SpecSlices == InitFacade /\ [][NextSlices]_vars

----------------------------------------------------------------------------
\* Scans on several contexts at once.

\* Every context scans the same user memory, whose only terminator is at
\* address 5, with every page mapped or with page 4 unmapped.
InitConcurrent ==
    /\ mem = [a \in Addr |-> IF a = 5 THEN 0 ELSE 1]
    /\ \E t \in {[p \in PageBases |-> READ_WRITE],
                 [p \in PageBases |-> IF p = 4 THEN {} ELSE READ_WRITE]} :
          uspace = [perm |-> t, nopop |-> {}, access_err |-> "EFAULT",
                    populate_err |-> "EFAULT"]
    /\ InitContexts
    /\ caller = "scan"

\* with_current disables preemption: a scan stays on the context it began
\* on, and the steps of the contexts interleave freely.
NextConcurrent ==
    \E c \in Contexts :
        \/ CheckNullTerminated(c)
        \/ ScanValidate(c)
        \/ ScanOverflowPanic(c)
        \/ ScanRead(c)
        \/ ScanExit(c)

SpecConcurrent == InitConcurrent /\ [][NextConcurrent]_vars

----------------------------------------------------------------------------
\* Pointers made with offset and cast, and the access that follows.

\* ptr.cast::<U>(): the same address, seen as a pointer to U.
ptr_cast(addr, U) == addr

\* A pointer made by base.offset(n), or by base.cast::<T>(), then used.
Derived(o, how, base, n) == o @@ [how |-> how, base |-> base, n |-> n]

\* self.read(base.offset(n))
OffsetRead(c) ==
    \E kind \in PtrKinds, T \in ElemTypes, base \in Addr, n \in 0 .. MaxOffset :
        Run(c, Derived(Call("read", kind, T, ptr_offset(base, T, n), 1, <<>>, <<>>, FALSE),
                       "offset", base, n), <<>>)

\* self.write(base.offset(n), val)
OffsetWrite(c) ==
    \E T \in ElemTypes, base \in Addr, n \in 0 .. MaxOffset :
        \E v \in ElemVals(T) :
            Run(c, Derived(Call("write", "UserPtr", T, ptr_offset(base, T, n), 1, v, <<>>,
                                FALSE), "offset", base, n), <<>>)

\* self.read(base.cast::<U>())
CastRead(c) ==
    \E kind \in PtrKinds, U \in ElemTypes, base \in Addr :
        Run(c, Derived(Call("read", kind, U, ptr_cast(base, U), 1, <<>>, <<>>, FALSE),
                       "cast", base, 0), <<>>)

\* One access through a derived pointer.
NextOffset ==
    \/ OffsetRead(1)
    \/ OffsetWrite(1)
    \/ CastRead(1)

SpecOffset == InitFacade /\ [][NextOffset]_vars

----------------------------------------------------------------------------
\* access_user_memory(f) called by kernel code, with sections nested in f.

\* Context c is at a point of f's execution.
InF(c) == pc[c] \in {"f", "f_resumed", "f_done"}

\* access_user_memory(f): v.store(true), then f begins.
SectionBegin(c) ==
    /\ pc[c] = "idle"
    /\ ACCESSING_USER_MEM' = SectionEnter(c)
    /\ pc' = [pc EXCEPT ![c] = "f"]
    /\ op' = [op EXCEPT ![c] = [name |-> "access_user_memory"]]
    /\ pre' = [pre EXCEPT ![c] = [mem |-> mem, kbuf |-> kbuf[c]]]
    /\ ret' = [ret EXCEPT ![c] = NoResult]
    /\ vlog' = [vlog EXCEPT ![c] = <<>>]
    /\ ulog' = [ulog EXCEPT ![c] = <<>>]
    /\ UNCHANGED <<mem, uspace, scan, arr, kbuf, last, caller, tally>>

\* f calls access_user_memory(g): v.store(true) again, then g runs.
NestedSection(c) ==
    /\ pc[c] = "f"
    /\ ACCESSING_USER_MEM' = SectionEnter(c)
    /\ pc' = [pc EXCEPT ![c] = "g"]
    /\ UNCHANGED <<mem, uspace, op, scan, arr, ret, vlog, ulog, kbuf, pre, last, caller,
                   tally>>

\* g returns: the nested call does v.store(false) and f goes on.
NestedSectionExit(c) ==
    /\ pc[c] = "g"
    /\ ACCESSING_USER_MEM' = SectionExit(c)
    /\ pc' = [pc EXCEPT ![c] = "f_resumed"]
    /\ UNCHANGED <<mem, uspace, op, scan, arr, ret, vlog, ulog, kbuf, pre, last, caller,
                   tally>>

\* f calls check_null_terminated, which opens a section of its own.
NestedScan(c) ==
    /\ pc[c] = "f"
    /\ \E T \in ElemTypes, start \in Addr, flags \in FlagSets :
          /\ ~Misaligned(start, AlignOf(T))
          /\ ScanBegin(c, [name |-> "access_user_memory", T |-> T, start |-> start,
                           flags |-> flags], T, start, flags)
    /\ UNCHANGED <<last, caller, tally>>

\* The nested scan leaves its closure: v.store(false), and f goes on with the
\* result.
NestedScanExit(c) ==
    /\ pc[c] = "scan_exit"
    /\ op[c].name = "access_user_memory"
    /\ ACCESSING_USER_MEM' = SectionExit(c)
    /\ ret' = [ret EXCEPT ![c] = scan[c].res]
    /\ pc' = [pc EXCEPT ![c] = "f_resumed"]
    /\ UNCHANGED <<mem, uspace, op, scan, arr, vlog, ulog, kbuf, pre, last, caller, tally>>

\* f reads a byte of user memory after the nested call has returned.
FAccess(c) ==
    /\ pc[c] = "f_resumed"
    /\ \E a \in Addr :
          ulog' = [ulog EXCEPT ![c] = Append(@, UAccess("r", a, 1, ACCESSING_USER_MEM[c]))]
    /\ pc' = [pc EXCEPT ![c] = "f_done"]
    /\ UNCHANGED <<mem, uspace, ACCESSING_USER_MEM, op, scan, arr, ret, vlog, kbuf, pre,
                   last, caller, tally>>

\* f returns: the outer call does v.store(false).
SectionEnd(c) ==
    /\ InF(c)
    /\ ACCESSING_USER_MEM' = SectionExit(c)
    /\ pc' = [pc EXCEPT ![c] = "idle"]
    /\ UNCHANGED <<mem, uspace, op, scan, arr, ret, vlog, ulog, kbuf, pre, last, caller,
                   tally>>

NextNested ==
    \/ SectionBegin(1)
    \/ NestedSection(1)
    \/ NestedSectionExit(1)
    \/ NestedScan(1)
    \/ ScanValidate(1)
    \/ ScanOverflowPanic(1)
    \/ ScanRead(1)
    \/ NestedScanExit(1)
    \/ FAccess(1)
    \/ SectionEnd(1)

SpecNested == InitConcurrent /\ [][NextNested]_vars

----------------------------------------------------------------------------
\* Scans that are let run: a context inside check_null_terminated keeps
\* executing its loop (preemption is off inside the section).

ScanStep(c) ==
    \/ ScanValidate(c)
    \/ ScanOverflowPanic(c)
    \/ ScanRead(c)
    \/ ScanExit(c)

SpecScanFair == SpecScan /\ WF_vars(ScanStep(1))

----------------------------------------------------------------------------
\* Properties of check_null_terminated (SpecScan).

\* Context c has returned from a direct call of check_null_terminated.
ScanReturned(c) ==
    pc[c] = "idle" /\ op[c].name = "check_null_terminated" /\ ret[c].tag # "none"

\* Context c is inside the closure of check_null_terminated.
ScanRunning(c) == pc[c] \in {"scan", "scan_exit"}

\* The pages whose check succeeded in this operation with the flags f.
ValidatedPages(c, f) ==
    {vlog[c][i].start : i \in {j \in 1 .. Len(vlog[c]) :
        /\ vlog[c][j].fn = "check_region_access"
        /\ vlog[c][j].size = PAGE_SIZE_4K
        /\ vlog[c][j].flags = f
        /\ IsOk(vlog[c][j].res)}}

\* The pages holding a byte of an element the operation has read.
InspectedPages(c) ==
    UNION {PagesOf(ulog[c][i].addr, ulog[c][i].size) : i \in 1 .. Len(ulog[c])}

\* No range occurs twice among the validator calls of the operation.
NoRangeTwice(c) ==
    \A i, j \in 1 .. Len(vlog[c]) :
        (i # j /\ vlog[c][i].fn = vlog[c][j].fn) =>
            <<vlog[c][i].start, vlog[c][i].size>> # <<vlog[c][j].start, vlog[c][j].size>>

\* C1: on one context the flag is false before check_null_terminated is
\* called, true at every step from the first page check to the last element
\* read (every validator call and every element read of the scan sees it
\* true), and false once the scan has returned, with a length or with the
\* error of a page check that failed part-way.
C1_FlagWindow ==
    \A c \in Contexts :
        /\ pc[c] = "idle" => ~is_accessing_user_memory(c)
        /\ ScanRunning(c) => is_accessing_user_memory(c)
        /\ op[c].name = "check_null_terminated" =>
              /\ \A i \in 1 .. Len(vlog[c]) : vlog[c][i].flag
              /\ \A i \in 1 .. Len(ulog[c]) : ulog[c][i].flag

\* A scan that read elements, then failed on the check of a later page, has
\* returned.
C1_Witness ==
    \E c \in Contexts :
        /\ ScanReturned(c)
        /\ IsErr(ret[c])
        /\ Len(ulog[c]) > 0
        /\ Len(vlog[c]) >= 2
        /\ ~is_accessing_user_memory(c)

\* C2: during check_null_terminated an element is read only after every
\* page that holds a byte of it has been validated, in this scan, with the
\* requested permission.
C2_ReadOnlyValidated ==
    \A c \in Contexts :
        op[c].name = "check_null_terminated" =>
            InspectedPages(c) \subseteq ValidatedPages(c, op[c].flags)

\* The number of elements from start (exclusive of the terminator) to the
\* first element equal to T::default(), when there is one below the end of
\* the address space; -1 when there is none.
ElemsBelowEnd(start, T) == (ADDR_SPACE - start) \div SizeOf(T)

FirstTerminator(m, start, T) ==
    LET zs == {n \in 0 .. (ElemsBelowEnd(start, T) - 1) :
                  ReadElem(m, start + n * SizeOf(T), T) = ZeroOf(T)}
    IN  IF zs = {} THEN -1 ELSE CHOOSE n \in zs : \A k \in zs : n <= k

\* Every page from the page of start to the last page of the terminator
\* allows the flags f.
PagesAccessibleTo(u, start, T, k, f) ==
    \A p \in PageBases :
        (align_down_4k(start) <= p /\ p <= align_down_4k(start + k * SizeOf(T) + SizeOf(T) - 1))
            => f \subseteq u.perm[p]

\* C3: for an aligned start and a memory whose pages from the start page to
\* the page of the first terminator are accessible, check_null_terminated
\* returns exactly k, the number of elements before the first terminator.
C3_ReturnsK ==
    \A c \in Contexts :
        LET o == op[c]
            k == FirstTerminator(pre[c].mem, o.start, o.T)
        IN  (/\ o.name = "check_null_terminated"
             /\ ~Misaligned(o.start, AlignOf(o.T))
             /\ k >= 0
             /\ PagesAccessibleTo(uspace, o.start, o.T, k, o.flags))
            => /\ pc[c] # "panic"
               /\ pc[c] = "idle" => (IsOk(ret[c]) /\ ret[c].val = k)

----------------------------------------------------------------------------
\* Properties of read_str_array (SpecArr).

\* The index of the first null slot of the pointer array at p, -1 when
\* there is none below the end of the address space.
FirstNullSlot(m, p) == FirstTerminator(m, p, "ptr")

\* The string at address a: the bytes before the first zero byte.
StringAt(m, a) == StrBytes(m, a, FirstTerminator(m, a, "u8"))

\* Every page from the page of a to the page of the terminator is readable.
StrReadable(m, u, a) ==
    /\ FirstTerminator(m, a, "u8") >= 0
    /\ PagesAccessibleTo(u, a, "u8", FirstTerminator(m, a, "u8"), READ)

\* a is a valid non-null string pointer: it points to readable memory that
\* holds a terminated, well-formed string.
ValidStrPtr(m, u, a) ==
    /\ a # 0
    /\ StrReadable(m, u, a)
    /\ Utf8Valid(StringAt(m, a))

\* Slot i of the array at p can be read.
SlotReadable(u, p, i) ==
    /\ p + i < ADDR_SPACE
    /\ READ \subseteq u.perm[align_down_4k(p + i)]
    /\ align_down_4k(p + i) \notin u.nopop

\* The array at p holds n valid non-null string pointers and then a null
\* slot, all of them in readable memory.
ValidStrArray(m, u, p, n) ==
    /\ n >= 0
    /\ n = FirstNullSlot(m, p)
    /\ \A i \in 0 .. n : SlotReadable(u, p, i)
    /\ \A i \in 0 .. (n - 1) : ValidStrPtr(m, u, m[p + i])

\* What read_str_array owes its caller on context c: the slots are read in
\* increasing order from slot 0 and none is read after a null slot; a valid
\* array of n strings makes the call return these n strings in slot order;
\* an error returned is the error of the slot read last, or of the string
\* this slot points to.
ReadStrArrayCorrect(c) ==
    LET o == op[c]
        m == pre[c].mem
        p == o.addr
        n == FirstNullSlot(m, p)
        slots == arr[c].slots
        j == Len(slots) - 1
    IN  /\ slots = [i \in 1 .. Len(slots) |-> i - 1]
        /\ \A i \in 1 .. (Len(slots) - 1) : m[Wrap(p + slots[i])] # 0
        /\ ValidStrArray(m, uspace, p, n) =>
              /\ pc[c] # "panic"
              /\ pc[c] = "idle" =>
                    (/\ IsOk(ret[c])
                     /\ ret[c].val = [i \in 1 .. n |-> StringAt(m, m[p + i - 1])])
        /\ (pc[c] = "idle" /\ IsErr(ret[c])) =>
              \/ ~SlotReadable(uspace, p, j) /\ ret[c].err = uspace.access_err
              \/ /\ SlotReadable(uspace, p, j)
                 /\ m[p + j] # 0
                 /\ IF StrReadable(m, uspace, m[p + j])
                    THEN ~Utf8Valid(StringAt(m, m[p + j])) /\ ret[c].err = "EILSEQ"
                    ELSE ret[c].err = uspace.access_err

\* C8: read_str_array on an array of n valid non-null string pointers
\* followed by a null slot returns exactly the n strings in slot order,
\* for every n >= 0; it reads the slots in increasing order and no slot after
\* the first null slot; when a slot or a string cannot be read it returns that
\* error at once, and none of the strings read so far.
C8_ReadStrArray ==
    \A c \in Contexts : op[c].name = "read_str_array" => ReadStrArrayCorrect(c)

\* The array, its null slot, and every string with its terminator lie below
\* the last page of the address space.
BelowLastPage(m, p) ==
    LET n == FirstNullSlot(m, p)
        top == ADDR_SPACE - PAGE_SIZE_4K
    IN  /\ n >= 0
        /\ p + n < top
        /\ \A i \in 0 .. (n - 1) :
              /\ FirstTerminator(m, m[p + i], "u8") >= 0
              /\ m[p + i] + FirstTerminator(m, m[p + i], "u8") < top

\* read_str_array is correct on every array that keeps clear of the last
\* page of the address space.
ReadStrArrayBelowLastPage ==
    \A c \in Contexts :
        (op[c].name = "read_str_array" /\ BelowLastPage(pre[c].mem, op[c].addr))
            => ReadStrArrayCorrect(c)

\* A valid array of two strings has been read to its null slot.
ReadStrArrayTwoStrings ==
    \E c \in Contexts :
        /\ op[c].name = "read_str_array"
        /\ pc[c] = "idle"
        /\ IsOk(ret[c])
        /\ Len(ret[c].val) = 2
        /\ ret[c].val[1] # ret[c].val[2]

----------------------------------------------------------------------------
\* Properties of the facade (Spec, SpecRoundTrip).

\* The facade methods built on check_region.
FacadeOps ==
    {"read", "write", "read_slice", "read_slice_to", "write_slice", "raw_ptr", "raw_slice"}

\* Context c has returned from a facade method.
FacadeReturned(c) == pc[c] = "idle" /\ op[c].name \in FacadeOps

\* The byte length and the permission of the range the call o needs.
OpSize(o) ==
    IF o.name \in {"read", "write", "raw_ptr"} THEN SizeOf(o.T) ELSE o.len * SizeOf(o.T)

OpFlags(o) ==
    IF o.name \in {"read", "read_slice", "read_slice_to"} THEN READ ELSE READ_WRITE

\* The call o reaches check_region: its pointer is not a null pointer given
\* to nullable!, and its element count has a representable byte length.
ReachesCheck(o) ==
    /\ ~(o.nullable /\ is_null(o.addr))
    /\ OpSize(o) <= ISIZE_MAX

\* The validator reported the range of the operation inaccessible: its
\* check_region_access was called and returned the fault error.
ReportedInaccessible(c) ==
    \E i \in 1 .. Len(vlog[c]) :
        vlog[c][i].fn = "check_region_access" /\ IsErrOf(vlog[c][i].res, "EFAULT")

\* C4: when the validator reports a byte of the range an operation needs
\* inaccessible, the operation returns the fault error, has touched no user
\* memory, and leaves user memory and the caller's buffer as they were.
C4_FaultChangesNothing ==
    \A c \in Contexts :
        (FacadeReturned(c) /\ ReportedInaccessible(c)) =>
            /\ IsErrOf(ret[c], "EFAULT")
            /\ mem = pre[c].mem
            /\ kbuf[c] = pre[c].kbuf
            /\ ulog[c] = <<>>

\* A write_slice over two pages, the second of them inaccessible, has
\* failed.
C4_Witness ==
    \E c \in Contexts :
        /\ FacadeReturned(c)
        /\ op[c].name = "write_slice"
        /\ op[c].len = 2
        /\ ReportedInaccessible(c)
        /\ READ_WRITE \subseteq uspace.perm[align_down_4k(op[c].addr)]

\* C5 as stated: an access at a misaligned start address fails with an
\* error kind other than the fault kind.
C5_DistinctKind ==
    \A c \in Contexts :
        (/\ FacadeReturned(c)
         /\ ReachesCheck(op[c])
         /\ Misaligned(op[c].addr, AlignOf(op[c].T)))
        => (IsErr(ret[c]) /\ ret[c].err # "EFAULT")

\* C5, amended: an access at a misaligned start address (with a
\* representable element count) fails with EFAULT, the error of an
\* inaccessible range, without a validator call and without a change to
\* user memory, whatever the permission and the validator.
C5_MisalignedIsFault ==
    \A c \in Contexts :
        (/\ FacadeReturned(c)
         /\ ReachesCheck(op[c])
         /\ Misaligned(op[c].addr, AlignOf(op[c].T)))
        => /\ IsErrOf(ret[c], "EFAULT")
           /\ vlog[c] = <<>>
           /\ mem = pre[c].mem

\* A misaligned write failed under a validator that maps every page it
\* would touch and returns errors of its own.
C5_Witness ==
    \E c \in Contexts :
        /\ FacadeReturned(c)
        /\ op[c].name = "write"
        /\ Misaligned(op[c].addr, AlignOf(op[c].T))
        /\ uspace.access_err = "EACCES"
        /\ \A p \in PagesOf(op[c].addr, SizeOf(op[c].T)) : uspace.perm[p] = READ_WRITE
        /\ IsErrOf(ret[c], "EFAULT")

\* What the validator answers for the range of the call o.
AccessAnswer(o) == check_region_access(uspace, o.addr, OpSize(o), OpFlags(o))

PopulateAnswer(o) == populate_region(uspace, o.addr, OpSize(o), OpFlags(o))

\* The call o reaches the validator.
Validated(o) == ReachesCheck(o) /\ ~Misaligned(o.addr, AlignOf(o.T))

\* C6 as stated: for an aligned start, check_region returns the fault error
\* when check_region_access fails and when populate_region fails, whatever
\* error the validator returned, and succeeds only when both succeed.
C6_AlwaysFault ==
    \A c \in Contexts :
        (FacadeReturned(c) /\ Validated(op[c])) =>
            /\ (IsErr(AccessAnswer(op[c])) \/ IsErr(PopulateAnswer(op[c])))
                  => IsErrOf(ret[c], "EFAULT")
            /\ IsOk(ret[c]) => (IsOk(AccessAnswer(op[c])) /\ IsOk(PopulateAnswer(op[c])))

\* C6, amended: for an aligned start, check_region returns the error value
\* of check_region_access unchanged when that call fails (populate_region is
\* then not called), the error value of populate_region unchanged when that
\* call fails, and succeeds only when both succeed.
C6_ValidatorErrorUnchanged ==
    \A c \in Contexts :
        (FacadeReturned(c) /\ Validated(op[c])) =>
            LET a == AccessAnswer(op[c])
                q == PopulateAnswer(op[c])
            IN  /\ IsErr(a) => (IsErrOf(ret[c], a.err) /\ Len(vlog[c]) = 1)
                /\ (IsOk(a) /\ IsErr(q)) => (IsErrOf(ret[c], q.err) /\ Len(vlog[c]) = 2)
                /\ IsOk(ret[c]) <=> (IsOk(a) /\ IsOk(q))

\* populate_region failed with the validator's own error value, and the
\* operation returned it.
C6_Witness ==
    \E c \in Contexts :
        /\ FacadeReturned(c)
        /\ Validated(op[c])
        /\ IsOk(AccessAnswer(op[c]))
        /\ IsErrOf(PopulateAnswer(op[c]), "ENOMEM")
        /\ IsErrOf(ret[c], "ENOMEM")

\* C9: nullable! on a null pointer returns Ok(None), invokes no accessor and
\* makes no validator call; on a non-null pointer it invokes the accessor
\* once and returns its value as Ok(Some(v)), or its error unchanged.
C9_Nullable ==
    \A c \in Contexts :
        (FacadeReturned(c) /\ op[c].nullable) =>
            IF op[c].addr = 0
            THEN /\ IsOk(ret[c]) /\ ret[c].val = None
                 /\ vlog[c] = <<>>
                 /\ ulog[c] = <<>>
                 /\ op[c].inv = <<>>
                 /\ mem = pre[c].mem
            ELSE LET r == Method(op[c], pre[c].mem, uspace, pre[c].kbuf,
                                 ACCESSING_USER_MEM[c])
                 IN  /\ Len(op[c].inv) = 1
                     /\ vlog[c] = r.calls
                     /\ mem = r.mem
                     /\ IsOk(r.ret) => (IsOk(ret[c]) /\ ret[c].val = Some(r.ret.val))
                     /\ IsErr(r.ret) => (IsErr(ret[c]) /\ ret[c].err = r.ret.err)

\* nullable! was given a null pointer under a validator that does not map
\* page 0.
C9_Witness ==
    \E c \in Contexts :
        /\ FacadeReturned(c)
        /\ op[c].nullable
        /\ op[c].addr = 0
        /\ uspace.perm[0] = {}
        /\ IsOk(ret[c])

\* C10: under a validator that keeps the range accessible and resident, a
\* write of v followed by a read through a read-only pointer to the same
\* address returns v, and a write_slice of s followed by a read_slice_to of
\* the same length at the same address fills the buffer with s.
C10_RoundTrip ==
    \A c \in Contexts :
        LET w == last[c].op
            r == op[c]
        IN  /\ (/\ FacadeReturned(c)
                /\ r.name = "read" /\ w.name = "write" /\ IsOk(last[c].ret)
                /\ r.kind = "UserConstPtr"
                /\ r.addr = w.addr /\ r.T = w.T)
               => (IsOk(ret[c]) /\ ret[c].val = w.val)
            /\ (/\ FacadeReturned(c)
                /\ r.name = "read_slice_to" /\ w.name = "write_slice" /\ IsOk(last[c].ret)
                /\ r.kind = "UserConstPtr"
                /\ r.addr = w.addr /\ r.T = w.T /\ r.len = w.len)
               => (IsOk(ret[c]) /\ kbuf[c] = w.slice)

\* A slice of two elements was written and read back.
C10_Witness ==
    \E c \in Contexts :
        /\ FacadeReturned(c)
        /\ op[c].name = "read_slice_to" /\ last[c].op.name = "write_slice"
        /\ op[c].addr = last[c].op.addr /\ op[c].T = last[c].op.T
        /\ op[c].len = 2 /\ last[c].op.len = 2
        /\ IsOk(ret[c])
        /\ kbuf[c] = last[c].op.slice

\* The accessors of the pointer wrappers, as the facade reaches them.
AccessorOps == {"read", "read_slice", "raw_ptr", "raw_slice", "write"}

\* C11 as stated: after any sequence of n accesses through one pointer the
\* validator has received n check_region_access calls.
C11_NChecksForNAccesses ==
    \A c \in Contexts :
        (pc[c] = "idle" /\ caller = "repeat") => tally[c].checks = tally[c].accesses

\* C11, amended: every access through a pointer performs its own
\* validation. After n accesses through one pointer, each with an aligned
\* start and a representable byte length, the validator has received n
\* check_region_access calls (an access with a misaligned start or an
\* unrepresentable length fails without one); an access that returned a
\* reference had its own range accepted by the validator in that same call;
\* and an access whose range the validator does not accept when it is made
\* returns the validator's error, whatever earlier accesses returned.
C11_OwnValidation ==
    /\ [](\A c \in Contexts :
            (pc[c] = "idle" /\ caller = "repeat") =>
                /\ tally[c].checks = tally[c].accesses - tally[c].short
                /\ (op[c].name \in AccessorOps /\ IsOk(ret[c])) =>
                      \E i \in 1 .. Len(vlog[c]) :
                          /\ vlog[c][i].fn = "check_region_access"
                          /\ vlog[c][i].start = op[c].addr
                          /\ vlog[c][i].size = OpSize(op[c])
                          /\ IsOk(vlog[c][i].res))
    /\ [][\A c \in Contexts :
            (/\ caller = "repeat"
             /\ tally'[c].accesses = tally[c].accesses + 1
             /\ ~StopsShort(op'[c])
             /\ IsErr(check_region_access(uspace, op'[c].addr, OpSize(op'[c]),
                                          OpFlags(op'[c]))))
            => ret'[c] = Err(uspace.access_err)]_vars

\* Through one pointer, an access succeeded, the validator then stopped
\* accepting the page, and the next access was rejected.
C11_Witness ==
    \E c \in Contexts :
        /\ caller = "repeat"
        /\ pc[c] = "idle"
        /\ tally[c].accesses = 2
        /\ tally[c].checks = 2
        /\ IsOk(last[c].ret)
        /\ last[c].op.name = op[c].name
        /\ \E p \in PageBases : uspace.perm[p] = {}
        /\ IsErrOf(ret[c], "EFAULT")

\* The read accessors and the mutable accessors, by the name of the call.
ReadAccessors ==
    {"read", "read_slice", "read_slice_to", "get_as_null_terminated", "read_str",
     "read_str_array"}

MutAccessors ==
    {"raw_ptr", "raw_slice", "write", "write_slice", "get_as_mut_null_terminated"}

\* C12: every validator call made for a read accessor, on either pointer
\* type, requests exactly the read permission; every validator call made for
\* a mutable accessor requests read and write.
C12_RequestedPermission ==
    \A c \in Contexts :
        \A i \in 1 .. Len(vlog[c]) :
            /\ op[c].name \in ReadAccessors => vlog[c][i].flags = READ
            /\ op[c].name \in MutAccessors => vlog[c][i].flags = READ_WRITE

\* A null-terminated read through a read-write pointer, of a page mapped
\* read-only, has returned a slice.
C12_Witness ==
    \E c \in Contexts :
        /\ pc[c] = "idle"
        /\ Len(vlog[c]) > 0
        /\ op[c].name = "get_as_null_terminated"
        /\ op[c].kind = "UserPtr"
        /\ uspace.perm[align_down_4k(op[c].addr)] = READ
        /\ IsOk(ret[c])

----------------------------------------------------------------------------
\* Properties of the slice operations.

SliceOps ==
    {"read_slice", "read_slice_to", "raw_slice", "write_slice",
     "get_as_slice", "get_as_mut_slice"}

\* The call of context c asks for a slice whose byte length Layout::array
\* cannot represent.
Unrepresentable(c) ==
    /\ op[c].name \in SliceOps
    /\ op[c].len * SizeOf(op[c].T) > ISIZE_MAX

\* C13: a slice operation called with an element count whose byte length
\* cannot be represented returns the invalid-size error EINVAL, makes no
\* validator call, touches no user memory and produces no slice, whatever
\* the start address.
C13_InvalidSize ==
    \A c \in Contexts :
        Unrepresentable(c) =>
            /\ pc[c] = "idle"
            /\ ret[c] = Err("EINVAL")
            /\ vlog[c] = <<>>
            /\ ulog[c] = <<>>
            /\ mem = pre[c].mem
            /\ kbuf[c] = pre[c].kbuf

\* The same of the facade alone, whose accessors map the layout error to
\* EINVAL.
FacadeInvalidSize ==
    \A c \in Contexts :
        (Unrepresentable(c) /\ op[c].name \in FacadeOps) =>
            /\ pc[c] = "idle"
            /\ ret[c] = Err("EINVAL")
            /\ vlog[c] = <<>>
            /\ ulog[c] = <<>>
            /\ mem = pre[c].mem
            /\ kbuf[c] = pre[c].kbuf

\* A facade slice read of unrepresentable length from a misaligned address
\* has returned.
FacadeInvalidSizeMisaligned ==
    \E c \in Contexts :
        /\ Unrepresentable(c)
        /\ op[c].name = "read_slice"
        /\ Misaligned(op[c].addr, AlignOf(op[c].T))
        /\ pc[c] = "idle"

----------------------------------------------------------------------------
\* Properties of concurrent scans.

\* C14: with scans running on two contexts in any interleaving, the flag of
\* a context is true exactly when a scan is in progress on that context
\* (a context that panicked inside its scan runs no further code), and a
\* step that changes the flag of one context is a step of that context's own
\* scan and changes nothing of another context.
C14_FlagIsLocal ==
    /\ [](\A c \in Contexts :
            pc[c] # "panic" => (is_accessing_user_memory(c) <=> ScanRunning(c)))
    /\ [][\A c \in Contexts :
            ACCESSING_USER_MEM'[c] # ACCESSING_USER_MEM[c] =>
                /\ pc'[c] # pc[c]
                /\ \A d \in Contexts \ {c} :
                      /\ ACCESSING_USER_MEM'[d] = ACCESSING_USER_MEM[d]
                      /\ pc'[d] = pc[d]
                      /\ scan'[d] = scan[d]]_vars

\* Context 2 has begun and finished a scan while context 1 is in the middle
\* of its own.
C14_Witness ==
    /\ pc[1] = "scan"
    /\ Len(ulog[1]) > 0
    /\ is_accessing_user_memory(1)
    /\ ScanReturned(2)
    /\ IsOk(ret[2])
    /\ ~is_accessing_user_memory(2)

----------------------------------------------------------------------------
\* The per-page validations of a scan.

\* The validator calls of context c's operation that name the function fn
\* for the page at base p.
PageCalls(c, fn, p) ==
    {i \in 1 .. Len(vlog[c]) :
        /\ vlog[c][i].fn = fn
        /\ vlog[c][i].start = p
        /\ vlog[c][i].size = PAGE_SIZE_4K}

----------------------------------------------------------------------------
\* The order of the validator calls of check_region.

\* C16: check_region makes no validator call for a misaligned start;
\* otherwise it calls check_region_access first and populate_region second,
\* both with the range [start, start + size) and the permission flags of the
\* operation, and calls populate_region exactly when check_region_access
\* succeeded.
C16_CallOrder ==
    \A c \in Contexts :
        (FacadeReturned(c) /\ ReachesCheck(op[c])) =>
            IF Misaligned(op[c].addr, AlignOf(op[c].T))
            THEN vlog[c] = <<>>
            ELSE /\ Len(vlog[c]) \in {1, 2}
                 /\ vlog[c][1].fn = "check_region_access"
                 /\ \A i \in 1 .. Len(vlog[c]) :
                       /\ vlog[c][i].start = op[c].addr
                       /\ vlog[c][i].size = OpSize(op[c])
                       /\ vlog[c][i].flags = OpFlags(op[c])
                 /\ Len(vlog[c]) = 2 <=> IsOk(vlog[c][1].res)
                 /\ Len(vlog[c]) = 2 => vlog[c][2].fn = "populate_region"

\* A slice operation over two pages was found accessible and then failed to
\* populate.
C16_Witness ==
    \E c \in Contexts :
        /\ FacadeReturned(c)
        /\ op[c].name \in {"read_slice", "raw_slice"}
        /\ PagesOf(op[c].addr, OpSize(op[c])) \cap uspace.nopop # {}
        /\ Cardinality(PagesOf(op[c].addr, OpSize(op[c]))) = 2
        /\ Len(vlog[c]) = 2
        /\ IsOk(vlog[c][1].res)
        /\ IsErr(vlog[c][2].res)

----------------------------------------------------------------------------
\* The flag at the accesses to user memory.

\* C17: at every step where an operation reads or writes user memory (the
\* element reads of a scan, the copies of read, write, read_slice_to and
\* write_slice, the slot and string reads of read_str and read_str_array)
\* is_accessing_user_memory() is true on that context.
C17_FlagAtEveryAccess ==
    \A c \in Contexts :
        \A i \in 1 .. Len(ulog[c]) : ulog[c][i].flag

\* The element reads of a scan, at least, are made with the flag true.
ScanReadsFlagged ==
    \A c \in Contexts :
        \A i \in 1 .. Len(ulog[c]) :
            (/\ pc[c] \in {"scan", "scan_exit"}
             /\ op[c].name \in {"get_as_null_terminated", "get_as_mut_null_terminated",
                                "read_str"})
            => ulog[c][i].flag

----------------------------------------------------------------------------
\* The flag at the validator callbacks.

\* C18: whenever a validator callback (check_region_access or
\* populate_region) executes on a context, the access flag of that context
\* is false.
C18_NoCallbackUnderFlag ==
    \A c \in Contexts :
        \A i \in 1 .. Len(vlog[c]) : ~vlog[c][i].flag

\* The validator callbacks of the facade's check_region, at least, run with
\* the flag false.
FacadeCallbacksUnflagged ==
    \A c \in Contexts :
        op[c].name \in FacadeOps => \A i \in 1 .. Len(vlog[c]) : ~vlog[c][i].flag

----------------------------------------------------------------------------
\* Properties of derived pointers.

\* Context c has returned from an access through a derived pointer.
DerivedReturned(c) == FacadeReturned(c) /\ "how" \in DOMAIN op[c]

\* base + n * size_of(T) of the pointer context c used passes the end of the
\* address space.
OffsetOverflows(c) == op[c].base + op[c].n * SizeOf(op[c].T) >= ADDR_SPACE

\* C19: offset and cast validate nothing and never fail, and when
\* base + n * size_of(T) overflows the address space the next access through
\* the resulting pointer returns an error instead of reaching the
\* wrapped-around address.
C19_OverflowDetected ==
    \A c \in Contexts :
        (DerivedReturned(c) /\ OffsetOverflows(c)) =>
            /\ IsErr(ret[c])
            /\ ulog[c] = <<>>
            /\ mem = pre[c].mem

\* What does hold: the access through a derived pointer is validated at the
\* address the pointer arithmetic produced (wrapped when it overflows), with
\* the alignment of the pointer's element type, and nothing else is checked
\* of it.
DerivedValidatedWhereItPoints ==
    \A c \in Contexts :
        DerivedReturned(c) =>
            /\ op[c].addr = Wrap(op[c].base + op[c].n * SizeOf(op[c].T))
            /\ \A i \in 1 .. Len(vlog[c]) : vlog[c][i].start = op[c].addr
            /\ IsOk(ret[c]) <=>
                  /\ ~Misaligned(op[c].addr, AlignOf(op[c].T))
                  /\ IsOk(AccessAnswer(op[c]))
                  /\ IsOk(PopulateAnswer(op[c]))

----------------------------------------------------------------------------
\* Properties of nested sections.

\* Context c is inside access_user_memory(f): in f itself, or in a section
\* or scan nested in f.
InOuterSection(c) ==
    \/ InF(c)
    \/ pc[c] = "g"
    \/ ScanRunning(c) /\ op[c].name = "access_user_memory"

\* C20: while access_user_memory(f) runs, is_accessing_user_memory() is true
\* at every point of f's execution, the points after a nested section or a
\* nested scan has returned included, and every access f makes to user
\* memory is made with the flag true.
C20_OuterSectionKeepsFlag ==
    \A c \in Contexts :
        /\ InOuterSection(c) => is_accessing_user_memory(c)
        /\ op[c].name = "access_user_memory" =>
              \A i \in 1 .. Len(ulog[c]) : ulog[c][i].flag

\* Up to the return of the first nested call, at least, the flag is true.
FlagUntilNestedReturn ==
    \A c \in Contexts :
        (pc[c] \in {"f", "g"} \/ (ScanRunning(c) /\ op[c].name = "access_user_memory"))
        => is_accessing_user_memory(c)

----------------------------------------------------------------------------
\* Termination of the scan, and the end of the address space.

\* The scan of context c has not panicked, has read no element below its
\* start address, and has validated no page below the page of the start
\* address and no page twice.
NoWrap(c) ==
    /\ pc[c] # "panic"
    /\ \A i \in 1 .. Len(ulog[c]) : ulog[c][i].addr >= op[c].start
    /\ \A i \in 1 .. Len(vlog[c]) : vlog[c][i].start >= align_down_4k(op[c].start)
    /\ NoRangeTwice(c)

\* C21: for every start address, memory content and validator,
\* check_null_terminated terminates with a length or an error, and element
\* and page addresses never wrap past the end of the address space: no
\* element below the start address is read and no page is validated again.
C21_TerminatesWithoutWrap ==
    /\ [](\A c \in Contexts : op[c].name = "check_null_terminated" => NoWrap(c))
    /\ \A c \in Contexts : ScanRunning(c) ~> ScanReturned(c)

\* The parts of C21, one by one.
ScanNeverPanics == \A c \in Contexts : pc[c] # "panic"

NoPageValidatedAgain ==
    \A c \in Contexts : op[c].name = "check_null_terminated" => NoRangeTwice(c)

NoElementBelowStart ==
    \A c \in Contexts :
        op[c].name = "check_null_terminated" =>
            \A i \in 1 .. Len(ulog[c]) : ulog[c][i].addr >= op[c].start

ScanTerminates == \A c \in Contexts : ScanRunning(c) ~> ScanReturned(c)

\* The validated-page boundary of the scan has come to the last page of the
\* address space: the scan is about to check that page, or has checked it.
ReachedLastPage(c) ==
    \/ pc[c] \in {"scan", "panic"} /\ scan[c].page = ADDR_SPACE - PAGE_SIZE_4K
    \/ \E i \in 1 .. Len(vlog[c]) : vlog[c][i].start = ADDR_SPACE - PAGE_SIZE_4K

\* What does hold: a scan whose boundary has not come to the last page has
\* not wrapped, and a scan fails to return only once its boundary has come
\* to the last page.
NoWrapBelowLastPage ==
    \A c \in Contexts :
        (op[c].name = "check_null_terminated" /\ ~ReachedLastPage(c)) => NoWrap(c)

TerminatesUnlessLastPage ==
    \A c \in Contexts : ScanRunning(c) ~> (ScanReturned(c) \/ ReachedLastPage(c))

====
